---- MODULE Spec2Model ----
(***************************************************************************)
(* KryptVault desktop core (apps/web/src-tauri/src): envelope encryption   *)
(* of files with a per-file DEK, sealed-box and folder-key wrapping of the *)
(* DEK, and the re-wrap used for sharing.                                  *)
(*                                                                         *)
(* Byte strings are symbolic terms (tuples whose first element names the   *)
(* kind).  The AEAD and the sealed box are the ideal primitives: a         *)
(* ciphertext opens only under the key material that produced it, and      *)
(* OsRng never repeats a draw.  Base64 text is a term around the bytes it  *)
(* encodes; text that is no base64 is the term Malformed.                  *)
(***************************************************************************)
EXTENDS Naturals, Sequences, FiniteSets, TLC

VARIABLES
    fs,     \* the files: path -> content, NoFile where there is none
    log,    \* the lines written through the log crate
    rnd,    \* how many draws OsRng has made
    nkeys,  \* how many keypairs have been generated
    out,    \* the wrapped keys, nonces and unsealed DEKs (base64) returned so far,
            \* from which the caller takes the arguments of later calls
    hist,   \* history: the invocations that returned an envelope or a wrapped key, in order
    last,   \* the last invocation (see Invocation)
    task,   \* the invocations running concurrently: id -> where it is, what it holds
    lock    \* AppState.temp_dir's mutex: the id of the task holding it, 0 when free

vars == <<fs, log, rnd, nkeys, out, hist, last, task, lock>>

(* ------------------------------ bounds -------------------------------- *)

\* Number of OsRng draws (DEKs, nonces, sealed-box ephemeral keys) a run may make.
MaxRand == 6

\* Number of sealed boxes a run of the sharing operations may produce.
MaxWraps == 2

\* Number of wrapped keys (folder-key wraps, sealed boxes) a run of the two
\* wrapping mechanisms side by side may produce.
MaxFolderWraps == 1

\* Number of keypairs a run may generate.
MaxKeys == 2

\* Number of invocations that run concurrently.
MaxTasks == 2

(* --------------------------- program constants ------------------------ *)

NONCE_SIZE == 24

KEY_SIZE == 32

(* ------------------------------- bytes -------------------------------- *)

\* Caller-chosen bytes: identity i, length n.
Raw(i, n) == <<"raw", i, n>>

\* The i-th draw of OsRng, n bytes long.
Rnd(i, n) == <<"rnd", i, n>>

\* X25519 public / secret key of the i-th generated keypair.
Pk(i) == <<"pk", i>>

Sk(i) == <<"sk", i>>

\* XChaCha20-Poly1305 ciphertext (payload and 16-byte tag) of pt under key k, nonce n.
Aead(k, n, pt) == <<"aead", k, n, pt>>

\* Sealed box of pt for public key pk; e is the sealing's ephemeral key.
Seal(pk, pt, e) == <<"seal", pk, pt, e>>

\* Bytes b with some bit flipped.
Bad(b) == <<"flip", b>>

\* The length of a byte string.
RECURSIVE BLen(_)
BLen(b) ==
    CASE b[1] = "raw"  -> b[3]
      [] b[1] = "rnd"  -> b[3]
      [] b[1] = "pk"   -> 32
      [] b[1] = "sk"   -> 32
      [] b[1] = "aead" -> BLen(b[4]) + 16
      [] b[1] = "seal" -> BLen(b[3]) + 48
      [] b[1] = "flip" -> BLen(b[2])

(* ------------------------------ results ------------------------------- *)

Ok(v) == [ok |-> TRUE, v |-> v]

\* An error carrying its Display text, as the sequence of its parts.
Err(m) == [ok |-> FALSE, v |-> m]

\* map_err(|e| format!("<prefix>{}", e))
MapErr(r, prefix) == IF r.ok THEN r ELSE Err(<<prefix>> \o r.v)

(* ------------------------------ base64 -------------------------------- *)

B64Encode(b) == <<"b64", b>>

Malformed == <<"notb64", <<"!">>>>

B64Decode(s) == IF s[1] = "b64" THEN Ok(s[2]) ELSE Err(<<"DecodeError">>)

(* --------------------------- the primitives --------------------------- *)

\* box_::PublicKey::from_slice / SecretKey::from_slice: Some iff 32 bytes.
FromSlice(b) == BLen(b) = KEY_SIZE

\* sealedbox::open(sealed, pk, sk)
SealedOpen(c, pk, sk) ==
    IF c[1] = "seal" /\ c[2] = pk /\ pk[1] = "pk" /\ sk = Sk(pk[2])
    THEN Ok(c[3])
    ELSE Err(<<"()">>)

\* cipher.decrypt(nonce, ciphertext)
AeadDecrypt(k, n, c) ==
    IF c[1] = "aead" /\ c[2] = k /\ c[3] = n
    THEN Ok(c[4])
    ELSE Err(<<"aead::Error">>)

(* ----------------------------- file system ---------------------------- *)

NoFile == <<"nofile">>

\* A path in a directory that does not exist: it can be neither opened nor created.
NoDir == "nodir/x"

\* The file invocation t of a command makes in the temp directory: <uuid>.enc.
TempPath(t) == "tmp/" \o ToString(t) \o ".enc"

TaskIds == 1..MaxTasks

Files == {"plain.txt", "file.enc", "out.txt"} \cup {TempPath(t) : t \in TaskIds}

Exists(f, p) == p \in Files /\ f[p] # NoFile

Creatable(p) == p \in Files

\* Path::file_name
FileName(p) == IF p = NoDir THEN "x" ELSE p

PlainText == Raw(1, 27)

(* ------------------------------ crypto.rs ----------------------------- *)

\* The r-th draw is the next one OsRng returns.
generate_dek(r) == Rnd(r, KEY_SIZE)

\* generate_nonce with a slip: the buffer is returned as it was allocated,
\* all zero, without being filled from OsRng.
generate_nonce_not_filled(r) == Raw(0, NONCE_SIZE)

generate_nonce(r) == Rnd(r, NONCE_SIZE)

\* Result and the cryptographic calls made, in order; rnd counts the draws made.
Ret(res, trace, r) == [res |-> res, trace |-> trace, rnd |-> r]

wrap_dek(dek, server_public_key, r) ==
    LET pk_bytes == B64Decode(server_public_key) IN
    IF ~pk_bytes.ok THEN Ret(Err(<<"Failed to decode server public key">>), <<>>, r)
    ELSE IF ~FromSlice(pk_bytes.v) THEN Ret(Err(<<"Invalid server public key">>), <<>>, r)
    ELSE Ret(Ok(B64Encode(Seal(pk_bytes.v, dek, Rnd(r + 1, KEY_SIZE)))), <<"seal">>, r + 1)

unwrap_dek(wrapped_dek, server_public_key, server_private_key) ==
    LET pk_bytes == B64Decode(server_public_key)
        sk_bytes == B64Decode(server_private_key)
        sealed   == B64Decode(wrapped_dek)
        dek_vec  == SealedOpen(sealed.v, pk_bytes.v, sk_bytes.v)
    IN
    IF ~pk_bytes.ok THEN Ret(Err(<<"Failed to decode server public key">>), <<>>, 0)
    ELSE IF ~sk_bytes.ok THEN Ret(Err(<<"Failed to decode server private key">>), <<>>, 0)
    ELSE IF ~FromSlice(pk_bytes.v) THEN Ret(Err(<<"Invalid server public key">>), <<>>, 0)
    ELSE IF ~FromSlice(sk_bytes.v) THEN Ret(Err(<<"Invalid server private key">>), <<>>, 0)
    ELSE IF ~sealed.ok THEN Ret(Err(<<"Failed to decode wrapped DEK">>), <<>>, 0)
    ELSE IF ~dek_vec.ok THEN Ret(Err(<<"Failed to unseal DEK">>), <<"seal_open">>, 0)
    ELSE IF BLen(dek_vec.v) # KEY_SIZE THEN Ret(Err(<<"Invalid DEK size">>), <<"seal_open">>, 0)
    ELSE Ret(Ok(dek_vec.v), <<"seal_open">>, 0)

\* What a file operation returns: Ret and the file system it leaves.
FRet(res, trace, r, f) == [res |-> res, trace |-> trace, rnd |-> r, fs |-> f]

\* encrypt_file with a slip: the DEK that is wrapped is drawn anew instead of
\* being the one the file was encrypted under.
encrypt_file_wraps_new_dek(f, r, input_path, output_path, server_public_key) ==
    LET dek         == generate_dek(r + 1)
        nonce_bytes == generate_nonce(r + 2)
        plaintext   == f[input_path]
        ciphertext  == Aead(dek, nonce_bytes, plaintext)
        written     == [f EXCEPT ![output_path] = ciphertext]
        wrapped_dek == wrap_dek(generate_dek(r + 3), server_public_key, r + 2)
    IN
    IF ~Exists(f, input_path)
    THEN FRet(Err(<<"Failed to open input file">>), <<>>, r + 2, f)
    ELSE IF ~Creatable(output_path)
    THEN FRet(Err(<<"Failed to create output file">>), <<"aead_encrypt">>, r + 2, f)
    ELSE IF ~wrapped_dek.res.ok
    THEN FRet(wrapped_dek.res, <<"aead_encrypt">> \o wrapped_dek.trace,
              wrapped_dek.rnd, written)
    ELSE FRet(Ok([encrypted_file_path |-> output_path,
                  wrapped_dek         |-> wrapped_dek.res.v,
                  nonce               |-> B64Encode(nonce_bytes),
                  file_size           |-> BLen(ciphertext),
                  original_filename   |-> FileName(input_path)]),
              <<"aead_encrypt">> \o wrapped_dek.trace, wrapped_dek.rnd, written)

encrypt_file(f, r, input_path, output_path, server_public_key) ==
    LET dek         == generate_dek(r + 1)
        nonce_bytes == generate_nonce(r + 2)
        plaintext   == f[input_path]
        ciphertext  == Aead(dek, nonce_bytes, plaintext)
        written     == [f EXCEPT ![output_path] = ciphertext]
        wrapped_dek == wrap_dek(dek, server_public_key, r + 2)
    IN
    IF ~Exists(f, input_path)
    THEN FRet(Err(<<"Failed to open input file">>), <<>>, r + 2, f)
    ELSE IF ~Creatable(output_path)
    THEN FRet(Err(<<"Failed to create output file">>), <<"aead_encrypt">>, r + 2, f)
    ELSE IF ~wrapped_dek.res.ok
    THEN FRet(wrapped_dek.res, <<"aead_encrypt">> \o wrapped_dek.trace,
              wrapped_dek.rnd, written)
    ELSE FRet(Ok([encrypted_file_path |-> output_path,
                  wrapped_dek         |-> wrapped_dek.res.v,
                  nonce               |-> B64Encode(nonce_bytes),
                  file_size           |-> BLen(ciphertext),
                  original_filename   |-> FileName(input_path)]),
              <<"aead_encrypt">> \o wrapped_dek.trace, wrapped_dek.rnd, written)

\* DecryptTail with a slip: the output file is created before the ciphertext
\* is decrypted, so a failed decryption leaves it empty.
DecryptTail_creates_output_first(f, dek, nonce, encrypted_file_path, output_path, before) ==
    LET nonce_bytes == B64Decode(nonce)
        ciphertext  == f[encrypted_file_path]
        plaintext   == AeadDecrypt(dek, nonce_bytes.v, ciphertext)
    IN
    IF ~nonce_bytes.ok THEN FRet(Err(<<"Failed to decode nonce">>), before, 0, f)
    ELSE IF BLen(nonce_bytes.v) # NONCE_SIZE
    THEN FRet(Err(<<"Invalid nonce size">>), before, 0, f)
    ELSE IF ~Exists(f, encrypted_file_path)
    THEN FRet(Err(<<"Failed to open encrypted file">>), before, 0, f)
    ELSE IF ~Creatable(output_path)
    THEN FRet(Err(<<"Failed to create output file">>), before, 0, f)
    ELSE IF ~plaintext.ok
    THEN FRet(Err(<<"Decryption failed: ">> \o plaintext.v),
              before \o <<"aead_decrypt">>, 0, [f EXCEPT ![output_path] = Raw(0, 0)])
    ELSE FRet(Ok(output_path), before \o <<"aead_decrypt">>, 0,
              [f EXCEPT ![output_path] = plaintext.v])

\* DecryptTail with a slip: a failed decryption is not returned as an error,
\* the bytes read are written out as they are.
DecryptTail_ignores_failure(f, dek, nonce, encrypted_file_path, output_path, before) ==
    LET nonce_bytes == B64Decode(nonce)
        ciphertext  == f[encrypted_file_path]
        plaintext   == AeadDecrypt(dek, nonce_bytes.v, ciphertext)
    IN
    IF ~nonce_bytes.ok THEN FRet(Err(<<"Failed to decode nonce">>), before, 0, f)
    ELSE IF BLen(nonce_bytes.v) # NONCE_SIZE
    THEN FRet(Err(<<"Invalid nonce size">>), before, 0, f)
    ELSE IF ~Exists(f, encrypted_file_path)
    THEN FRet(Err(<<"Failed to open encrypted file">>), before, 0, f)
    ELSE IF ~Creatable(output_path)
    THEN FRet(Err(<<"Failed to create output file">>),
              before \o <<"aead_decrypt">>, 0, f)
    ELSE FRet(Ok(output_path), before \o <<"aead_decrypt">>, 0,
              [f EXCEPT ![output_path] =
                   IF plaintext.ok THEN plaintext.v ELSE ciphertext])

\* The part of decrypt_file and decrypt_file_with_dek after the DEK is in hand:
\* decode the nonce, read the ciphertext, decrypt, write the plaintext.
DecryptTail(f, dek, nonce, encrypted_file_path, output_path, before) ==
    LET nonce_bytes == B64Decode(nonce)
        ciphertext  == f[encrypted_file_path]
        plaintext   == AeadDecrypt(dek, nonce_bytes.v, ciphertext)
    IN
    IF ~nonce_bytes.ok THEN FRet(Err(<<"Failed to decode nonce">>), before, 0, f)
    ELSE IF BLen(nonce_bytes.v) # NONCE_SIZE
    THEN FRet(Err(<<"Invalid nonce size">>), before, 0, f)
    ELSE IF ~Exists(f, encrypted_file_path)
    THEN FRet(Err(<<"Failed to open encrypted file">>), before, 0, f)
    ELSE IF ~plaintext.ok
    THEN FRet(Err(<<"Decryption failed: ">> \o plaintext.v),
              before \o <<"aead_decrypt">>, 0, f)
    ELSE IF ~Creatable(output_path)
    THEN FRet(Err(<<"Failed to create output file">>),
              before \o <<"aead_decrypt">>, 0, f)
    ELSE FRet(Ok(output_path), before \o <<"aead_decrypt">>, 0,
              [f EXCEPT ![output_path] = plaintext.v])

\* params = [encrypted_file_path, wrapped_dek, nonce, server_private_key]
decrypt_file(f, params, output_path, server_public_key) ==
    LET dek == unwrap_dek(params.wrapped_dek, server_public_key,
                          params.server_private_key)
    IN
    IF ~dek.res.ok THEN FRet(dek.res, dek.trace, 0, f)
    ELSE DecryptTail(f, dek.res.v, params.nonce, params.encrypted_file_path,
                     output_path, dek.trace)

\* decrypt_file_with_dek with a slip: the length of the DEK is checked against
\* the length of a nonce.
decrypt_file_with_dek_checks_nonce_size(f, encrypted_file_path, dek_base64, nonce_base64, output_path) ==
    LET dek_bytes == B64Decode(dek_base64) IN
    IF ~dek_bytes.ok THEN FRet(Err(<<"Failed to decode DEK">>), <<>>, 0, f)
    ELSE IF BLen(dek_bytes.v) # NONCE_SIZE
    THEN FRet(Err(<<"Invalid DEK size: expected 32, got ", ToString(BLen(dek_bytes.v))>>),
              <<>>, 0, f)
    ELSE DecryptTail(f, dek_bytes.v, nonce_base64, encrypted_file_path,
                     output_path, <<>>)

decrypt_file_with_dek(f, encrypted_file_path, dek_base64, nonce_base64, output_path) ==
    LET dek_bytes == B64Decode(dek_base64) IN
    IF ~dek_bytes.ok THEN FRet(Err(<<"Failed to decode DEK">>), <<>>, 0, f)
    ELSE IF BLen(dek_bytes.v) # KEY_SIZE
    THEN FRet(Err(<<"Invalid DEK size: expected 32, got ", ToString(BLen(dek_bytes.v))>>),
              <<>>, 0, f)
    ELSE DecryptTail(f, dek_bytes.v, nonce_base64, encrypted_file_path,
                     output_path, <<>>)

\* sodiumoxide::crypto::box_::gen_keypair for the i-th keypair, both halves base64.
generate_server_keypair(i) == <<B64Encode(Pk(i)), B64Encode(Sk(i))>>

wrap_dek_for_recipient(dek, recipient_public_key, r) ==
    LET pk_bytes == B64Decode(recipient_public_key) IN
    IF ~pk_bytes.ok THEN Ret(Err(<<"Failed to decode recipient public key">>), <<>>, r)
    ELSE IF ~FromSlice(pk_bytes.v) THEN Ret(Err(<<"Invalid recipient public key">>), <<>>, r)
    ELSE Ret(Ok(B64Encode(Seal(pk_bytes.v, dek, Rnd(r + 1, KEY_SIZE)))), <<"seal">>, r + 1)

unwrap_dek_for_user(wrapped_dek, user_public_key, user_private_key) ==
    LET pk_bytes == B64Decode(user_public_key)
        sk_bytes == B64Decode(user_private_key)
        sealed   == B64Decode(wrapped_dek)
        dek_vec  == SealedOpen(sealed.v, pk_bytes.v, sk_bytes.v)
    IN
    IF ~pk_bytes.ok THEN Ret(Err(<<"Failed to decode user public key">>), <<>>, 0)
    ELSE IF ~sk_bytes.ok THEN Ret(Err(<<"Failed to decode user private key">>), <<>>, 0)
    ELSE IF ~FromSlice(pk_bytes.v) THEN Ret(Err(<<"Invalid user public key">>), <<>>, 0)
    ELSE IF ~FromSlice(sk_bytes.v) THEN Ret(Err(<<"Invalid user private key">>), <<>>, 0)
    ELSE IF ~sealed.ok THEN Ret(Err(<<"Failed to decode wrapped DEK">>), <<>>, 0)
    ELSE IF ~dek_vec.ok THEN Ret(Err(<<"Failed to unseal DEK">>), <<"seal_open">>, 0)
    ELSE IF BLen(dek_vec.v) # KEY_SIZE THEN Ret(Err(<<"Invalid DEK size">>), <<"seal_open">>, 0)
    ELSE Ret(Ok(dek_vec.v), <<"seal_open">>, 0)

\* encrypt_with_key with a slip: the DEK is encrypted under an all-zero nonce,
\* the nonce returned is the one drawn.
encrypt_with_key_zero_nonce(data, key, r) ==
    LET nonce_bytes == generate_nonce(r + 1) IN
    Ret(Ok(<<B64Encode(Aead(key, Raw(0, NONCE_SIZE), data)), B64Encode(nonce_bytes)>>),
        <<"aead_encrypt">>, r + 1)

encrypt_with_key(data, key, r) ==
    LET nonce_bytes == generate_nonce(r + 1) IN
    Ret(Ok(<<B64Encode(Aead(key, nonce_bytes, data)), B64Encode(nonce_bytes)>>),
        <<"aead_encrypt">>, r + 1)

\* decrypt_with_key with a slip: a failed decryption is not returned as an
\* error, the bytes given are returned as they are.
decrypt_with_key_ignores_failure(ciphertext_b64, nonce_b64, key) ==
    LET ciphertext  == B64Decode(ciphertext_b64)
        nonce_bytes == B64Decode(nonce_b64)
        plaintext   == AeadDecrypt(key, nonce_bytes.v, ciphertext.v)
    IN
    IF ~ciphertext.ok THEN Ret(Err(<<"Failed to decode ciphertext">>), <<>>, 0)
    ELSE IF ~nonce_bytes.ok THEN Ret(Err(<<"Failed to decode nonce">>), <<>>, 0)
    ELSE IF BLen(nonce_bytes.v) # NONCE_SIZE THEN Ret(Err(<<"Invalid nonce size">>), <<>>, 0)
    ELSE Ret(Ok(IF plaintext.ok THEN plaintext.v ELSE ciphertext.v), <<"aead_decrypt">>, 0)

decrypt_with_key(ciphertext_b64, nonce_b64, key) ==
    LET ciphertext  == B64Decode(ciphertext_b64)
        nonce_bytes == B64Decode(nonce_b64)
        plaintext   == AeadDecrypt(key, nonce_bytes.v, ciphertext.v)
    IN
    IF ~ciphertext.ok THEN Ret(Err(<<"Failed to decode ciphertext">>), <<>>, 0)
    ELSE IF ~nonce_bytes.ok THEN Ret(Err(<<"Failed to decode nonce">>), <<>>, 0)
    ELSE IF BLen(nonce_bytes.v) # NONCE_SIZE THEN Ret(Err(<<"Invalid nonce size">>), <<>>, 0)
    ELSE IF ~plaintext.ok
    THEN Ret(Err(<<"Decryption failed: ">> \o plaintext.v), <<"aead_decrypt">>, 0)
    ELSE Ret(Ok(plaintext.v), <<"aead_decrypt">>, 0)

(* ----------------------------- commands.rs ---------------------------- *)

generate_keypair(i) == Ok(generate_server_keypair(i))

encrypt_file_only(f, r, input_path, output_path, server_public_key) ==
    LET e == encrypt_file(f, r, input_path, output_path, server_public_key) IN
    [e EXCEPT !.res = MapErr(e.res, "Encryption failed: ")]

decrypt_file_only(f, params, output_path, server_public_key) ==
    LET d == decrypt_file(f, params, output_path, server_public_key) IN
    [d EXCEPT !.res = MapErr(d.res, "Decryption failed: ")]

\* share_file_key with a slip: the DEK is re-wrapped for the holder's own
\* public key instead of the recipient's.
share_file_key_wraps_for_holder(wrapped_dek, user_public_key, user_private_key, recipient_public_key, r) ==
    LET dek == unwrap_dek_for_user(wrapped_dek, user_public_key, user_private_key)
        new == wrap_dek_for_recipient(dek.res.v, user_public_key, r)
    IN
    IF ~dek.res.ok
    THEN Ret(MapErr(dek.res, "Failed to unwrap DEK: "), dek.trace, r)
    ELSE Ret(MapErr(new.res, "Failed to wrap DEK for recipient: "),
             dek.trace \o new.trace, new.rnd)

\* share_file_key with a slip: when the unwrap fails, an all-zero key is
\* wrapped for the recipient instead of the error being returned.
share_file_key_ignores_unwrap_error(wrapped_dek, user_public_key, user_private_key, recipient_public_key, r) ==
    LET dek == unwrap_dek_for_user(wrapped_dek, user_public_key, user_private_key)
        new == wrap_dek_for_recipient(IF dek.res.ok THEN dek.res.v ELSE Raw(0, KEY_SIZE),
                                      recipient_public_key, r)
    IN
    Ret(MapErr(new.res, "Failed to wrap DEK for recipient: "),
        dek.trace \o new.trace, new.rnd)

\* share_file_key with a slip: the error of a failed wrap quotes the DEK.
share_file_key_reports_dek(wrapped_dek, user_public_key, user_private_key, recipient_public_key, r) ==
    LET dek == unwrap_dek_for_user(wrapped_dek, user_public_key, user_private_key)
        new == wrap_dek_for_recipient(dek.res.v, recipient_public_key, r)
    IN
    IF ~dek.res.ok
    THEN Ret(MapErr(dek.res, "Failed to unwrap DEK: "), dek.trace, r)
    ELSE IF ~new.res.ok
    THEN Ret(Err(<<"Failed to wrap DEK ", ToString(B64Encode(dek.res.v)),
                   " for recipient: ">> \o new.res.v),
             dek.trace \o new.trace, new.rnd)
    ELSE Ret(new.res, dek.trace \o new.trace, new.rnd)

share_file_key(wrapped_dek, user_public_key, user_private_key, recipient_public_key, r) ==
    LET dek == unwrap_dek_for_user(wrapped_dek, user_public_key, user_private_key)
        new == wrap_dek_for_recipient(dek.res.v, recipient_public_key, r)
    IN
    IF ~dek.res.ok
    THEN Ret(MapErr(dek.res, "Failed to unwrap DEK: "), dek.trace, r)
    ELSE Ret(MapErr(new.res, "Failed to wrap DEK for recipient: "),
             dek.trace \o new.trace, new.rnd)

unwrap_shared_dek(wrapped_dek, user_public_key, user_private_key) ==
    LET dek == unwrap_dek_for_user(wrapped_dek, user_public_key, user_private_key) IN
    IF ~dek.res.ok
    THEN Ret(MapErr(dek.res, "Failed to unwrap DEK: "), dek.trace, 0)
    ELSE Ret(Ok(B64Encode(dek.res.v)), dek.trace, 0)

\* params = [dek_b64, folder_key_b64]
wrap_dek_with_folder_key(params, r) ==
    LET dek            == B64Decode(params.dek_b64)
        folder_key_vec == B64Decode(params.folder_key_b64)
        wrapped        == encrypt_with_key(dek.v, folder_key_vec.v, r)
    IN
    IF ~dek.ok THEN Ret(MapErr(dek, "Failed to decode DEK: "), <<>>, r)
    ELSE IF ~folder_key_vec.ok
    THEN Ret(MapErr(folder_key_vec, "Failed to decode folder key: "), <<>>, r)
    ELSE IF BLen(folder_key_vec.v) # 32
    THEN Ret(Err(<<"Invalid folder key size">>), <<>>, r)
    ELSE IF ~wrapped.res.ok
    THEN Ret(MapErr(wrapped.res, "Failed to wrap DEK: "), wrapped.trace, wrapped.rnd)
    ELSE Ret(Ok([wrapped_dek    |-> wrapped.res.v[1],
                 wrapping_nonce |-> wrapped.res.v[2]]),
             wrapped.trace, wrapped.rnd)

\* params = [wrapped_dek, wrapping_nonce, folder_key_b64]
unwrap_dek_with_folder_key(params) ==
    LET folder_key_vec == B64Decode(params.folder_key_b64)
        dek == decrypt_with_key(params.wrapped_dek, params.wrapping_nonce,
                                folder_key_vec.v)
    IN
    IF ~folder_key_vec.ok
    THEN Ret(MapErr(folder_key_vec, "Failed to decode folder key: "), <<>>, 0)
    ELSE IF BLen(folder_key_vec.v) # 32
    THEN Ret(Err(<<"Invalid folder key size">>), <<>>, 0)
    ELSE IF ~dek.res.ok
    THEN Ret(MapErr(dek.res, "Failed to unwrap DEK: "), dek.trace, 0)
    ELSE Ret(Ok(B64Encode(dek.res.v)), dek.trace, 0)

seal_data(data, recipient_public_key, r) ==
    LET data_bytes == B64Decode(data)
        pk_bytes   == B64Decode(recipient_public_key)
    IN
    IF ~data_bytes.ok THEN Ret(MapErr(data_bytes, "Failed to decode data: "), <<>>, r)
    ELSE IF ~pk_bytes.ok
    THEN Ret(MapErr(pk_bytes, "Failed to decode public key: "), <<>>, r)
    ELSE IF ~FromSlice(pk_bytes.v) THEN Ret(Err(<<"Invalid public key">>), <<>>, r)
    ELSE Ret(Ok(B64Encode(Seal(pk_bytes.v, data_bytes.v, Rnd(r + 1, KEY_SIZE)))),
             <<"seal">>, r + 1)

(* --------------------------- what a caller passes --------------------- *)

\* Sixteen bytes: a key, nonce or DEK of the wrong length.
Short == Raw(0, 16)

\* A 32-byte key of the caller's own, unrelated to any the program drew.
OtherKey == Raw(0, KEY_SIZE)

\* A 24-byte nonce of the caller's own.
OtherNonce == Raw(0, NONCE_SIZE)

PkStrs == {B64Encode(Pk(i)) : i \in 1..nkeys}

SkStrs == {B64Encode(Sk(i)) : i \in 1..nkeys}

\* The returned strings that are wrapped keys, nonces, DEKs.
WrappedStrs == {s \in out : s[2][1] \in {"seal", "aead"}}

NonceStrs == {s \in out : s[2][1] = "rnd" /\ BLen(s[2]) = NONCE_SIZE}

DekStrs == {s \in out : s[2][1] = "rnd" /\ BLen(s[2]) = KEY_SIZE}

\* The argument records args, each with one argument replaced by a faulty
\* value; faults is a set of <<argument, value>>.
Faulty(args, faults) == {[a EXCEPT ![f[1]] = f[2]] : a \in args, f \in faults}

\* Well-formed arguments, and each of them with one fault.
WithFaults(wellFormed, faults) == wellFormed \cup Faulty(wellFormed, faults)

\* The wrapped key s as it arrives when a bit of it was flipped on the way.
Corrupted(s) == B64Encode(Bad(s[2]))

\* pk and sk are the base64 halves of one generated keypair.
IsKeypair(pk, sk) == \E i \in 1..nkeys : pk = B64Encode(Pk(i)) /\ sk = B64Encode(Sk(i))

(* -------------------------------- state ------------------------------- *)

\* The record of an invocation: what was called with what, what it returned,
\* the cryptographic calls it made in order, the files and the log as it
\* found them (fsPre, logPre), the files as it left them (fsPost), and whether
\* it changed anything (a file, the draws made, the keypairs, the strings returned).
Invocation(op, args, res, trace, fsPost) ==
    [op |-> op, args |-> args, res |-> res, trace |-> trace,
     fsPre |-> fs, fsPost |-> fsPost, logPre |-> log,
     changed |-> <<fsPost, rnd', nkeys', out'>> # <<fs, rnd, nkeys, out>>]

\* An invocation that has not been made yet.  A task carries the arguments of
\* the call it runs (those its operation does not take are empty), the
\* step it is at (pc), what it holds in memory (dek, nonce_bytes, buf), its
\* result once it has returned, and the files as they were when it started.
NotStarted ==
    [op |-> "", pc |-> "idle",
     input_path |-> "", encrypted_file_path |-> "", output_path |-> "",
     wrapped_dek |-> Malformed, nonce |-> Malformed, dek_base64 |-> Malformed,
     server_public_key |-> Malformed, server_private_key |-> Malformed,
     dek |-> NoFile, nonce_bytes |-> NoFile, buf |-> NoFile,
     fetched |-> NoFile, removed |-> TRUE,
     res |-> [ok |-> TRUE, v |-> <<"", <<>>>>], fs0 |-> [p \in Files |-> NoFile]]

Init ==
    /\ fs = [p \in Files |-> IF p = "plain.txt" THEN PlainText ELSE NoFile]
    /\ log = <<>>
    /\ rnd = 0
    /\ nkeys = 0
    /\ out = {}
    /\ hist = <<>>
    /\ last = [op |-> "init", args |-> [n |-> 0], res |-> Ok(<<>>), trace |-> <<>>,
               fsPre |-> fs, fsPost |-> fs, logPre |-> log, changed |-> TRUE]
    /\ task = [t \in TaskIds |-> NotStarted]
    /\ lock = 0

\* A call that changed nothing leaves the program in the state it was called
\* in, and what can be called after it is what could be called before it.  The
\* next call is taken from a state that a call has changed, or from the
\* initial one: the states reached are the same.
Idle == ~last.changed

GenerateKeypair ==
    /\ ~Idle
    /\ nkeys < MaxKeys
    /\ nkeys' = nkeys + 1
    /\ UNCHANGED <<fs, log, rnd, out, hist, task, lock>>
    /\ last' = Invocation("generate_keypair", [n |-> nkeys + 1],
                          generate_keypair(nkeys + 1), <<>>, fs)

\* The stored ciphertext comes back altered.
TamperFile ==
    /\ ~Idle
    /\ fs["file.enc"][1] = "aead"
    /\ fs' = [fs EXCEPT !["file.enc"] = Bad(@)]
    /\ UNCHANGED <<log, rnd, nkeys, out, hist, task, lock>>
    /\ last' = Invocation("fs::write", [path |-> "file.enc"], Ok(<<>>), <<>>, fs')

EncryptFileOnly ==
    /\ ~Idle
    /\ \E a \in WithFaults([input_path : {"plain.txt"}, output_path : {"file.enc"},
                            server_public_key : PkStrs],
                           {<<"input_path", NoDir>>, <<"output_path", NoDir>>,
                            <<"server_public_key", Malformed>>,
                            <<"server_public_key", B64Encode(Short)>>}) :
           LET e == encrypt_file_only(fs, rnd, a.input_path, a.output_path,
                                      a.server_public_key)
           IN
           /\ rnd + 3 <= MaxRand
           /\ fs' = e.fs
           /\ rnd' = e.rnd
           /\ out' = IF e.res.ok THEN out \cup {e.res.v.wrapped_dek, e.res.v.nonce} ELSE out
           /\ UNCHANGED <<log, nkeys, task, lock>>
           /\ last' = Invocation("encrypt_file", a, e.res, e.trace, e.fs)
           /\ hist' = IF e.res.ok THEN Append(hist, last') ELSE hist

DecryptFileOnly ==
    /\ ~Idle
    /\ LET wellFormed == [encrypted_file_path : {"file.enc"}, wrapped_dek : WrappedStrs,
                          nonce : NonceStrs \cup {B64Encode(OtherNonce)},
                          server_private_key : SkStrs,
                          output_path : {"out.txt"}, server_public_key : PkStrs]
           paired == {a \in wellFormed :
                         IsKeypair(a.server_public_key, a.server_private_key)}
       IN
       \E a \in wellFormed \cup
                Faulty(paired,
                       {<<"encrypted_file_path", NoDir>>, <<"output_path", NoDir>>,
                        <<"wrapped_dek", Malformed>>,
                        <<"nonce", Malformed>>, <<"nonce", B64Encode(Short)>>,
                        <<"server_private_key", Malformed>>,
                        <<"server_public_key", Malformed>>,
                        <<"server_public_key", B64Encode(Short)>>}) :
           LET params == [encrypted_file_path |-> a.encrypted_file_path,
                          wrapped_dek         |-> a.wrapped_dek,
                          nonce               |-> a.nonce,
                          server_private_key  |-> a.server_private_key]
               d == decrypt_file_only(fs, params, a.output_path, a.server_public_key)
           IN
           /\ fs' = d.fs
           /\ UNCHANGED <<log, rnd, nkeys, out, hist, task, lock>>
           /\ last' = Invocation("decrypt_file", a, d.res, d.trace, d.fs)

DecryptFileWithDek ==
    /\ ~Idle
    /\ \E a \in WithFaults([encrypted_file_path : {"file.enc"},
                            dek_base64 : DekStrs \cup {B64Encode(OtherKey)},
                            nonce_base64 : NonceStrs \cup {B64Encode(OtherNonce)},
                            output_path : {"out.txt"}],
                           {<<"encrypted_file_path", NoDir>>, <<"output_path", NoDir>>,
                            <<"dek_base64", Malformed>>, <<"dek_base64", B64Encode(Short)>>,
                            <<"nonce_base64", Malformed>>,
                            <<"nonce_base64", B64Encode(Short)>>}) :
           LET d == decrypt_file_with_dek(fs, a.encrypted_file_path, a.dek_base64,
                                          a.nonce_base64, a.output_path)
           IN
           /\ fs' = d.fs
           /\ UNCHANGED <<log, rnd, nkeys, out, hist, task, lock>>
           /\ last' = Invocation("decrypt_file_with_dek", a, d.res, d.trace, d.fs)

UnwrapSharedDek ==
    /\ ~Idle
    /\ LET wellFormed == [wrapped_dek : WrappedStrs \cup NonceStrs,
                          user_public_key : PkStrs, user_private_key : SkStrs]
           paired == {a \in wellFormed : IsKeypair(a.user_public_key, a.user_private_key)}
       IN
       \E a \in wellFormed \cup
                Faulty(paired,
                       {<<"wrapped_dek", Malformed>>,
                        <<"user_public_key", Malformed>>,
                        <<"user_public_key", B64Encode(Short)>>,
                        <<"user_private_key", Malformed>>}) \cup
                {[a EXCEPT !.wrapped_dek = Corrupted(@)] : a \in paired} :
           LET u == unwrap_shared_dek(a.wrapped_dek, a.user_public_key,
                                      a.user_private_key)
           IN
           /\ out' = IF u.res.ok THEN out \cup {u.res.v} ELSE out
           /\ UNCHANGED <<fs, log, rnd, nkeys, hist, task, lock>>
           /\ last' = Invocation("unwrap_shared_dek", a, u.res, u.trace, fs)

\* The file operations: encrypt a file, decrypt it with the keypair or with
\* the DEK unwrapped beforehand.
Next ==
    \/ GenerateKeypair
    \/ TamperFile
    \/ EncryptFileOnly
    \/ DecryptFileOnly
    \/ DecryptFileWithDek
    \/ UnwrapSharedDek

Spec == Init /\ [][Next]_vars

\* The DEKs and the folder key a caller holds.
DekStrsOfCaller == {B64Encode(Raw(2, KEY_SIZE)), B64Encode(Raw(3, KEY_SIZE))}

FolderKeyStrs == {B64Encode(Raw(4, KEY_SIZE))}

SealData(cap) ==
    /\ ~Idle
    /\ \E a \in WithFaults([data : DekStrsOfCaller, recipient_public_key : PkStrs],
                           {<<"data", Malformed>>,
                            <<"recipient_public_key", Malformed>>,
                            <<"recipient_public_key", B64Encode(Short)>>}) :
           LET r == seal_data(a.data, a.recipient_public_key, rnd) IN
           /\ r.rnd <= cap
           /\ rnd' = r.rnd
           /\ out' = IF r.res.ok THEN out \cup {r.res.v} ELSE out
           /\ UNCHANGED <<fs, log, nkeys, task, lock>>
           /\ last' = Invocation("seal_data", a, r.res, r.trace, fs)
           /\ hist' = IF r.res.ok THEN Append(hist, last') ELSE hist

\* seal_data on data that is not a key: 16 bytes.
SealShortData(cap) ==
    /\ ~Idle
    /\ \E a \in [data : {B64Encode(Short)}, recipient_public_key : PkStrs] :
           LET r == seal_data(a.data, a.recipient_public_key, rnd) IN
           /\ r.rnd <= cap
           /\ rnd' = r.rnd
           /\ out' = IF r.res.ok THEN out \cup {r.res.v} ELSE out
           /\ UNCHANGED <<fs, log, nkeys, task, lock>>
           /\ last' = Invocation("seal_data", a, r.res, r.trace, fs)
           /\ hist' = IF r.res.ok THEN Append(hist, last') ELSE hist

ShareFileKey(cap) ==
    /\ ~Idle
    /\ LET wellFormed == [wrapped_dek : WrappedStrs, user_public_key : PkStrs,
                          user_private_key : SkStrs, recipient_public_key : PkStrs]
           \* the holder's own keypair, re-wrapping for some other user
           paired == {a \in wellFormed :
                         /\ IsKeypair(a.user_public_key, a.user_private_key)
                         /\ (nkeys > 1 => a.recipient_public_key # a.user_public_key)}
       IN
       \E a \in wellFormed \cup
                Faulty(paired,
                       {<<"wrapped_dek", Malformed>>,
                        <<"user_public_key", Malformed>>,
                        <<"user_public_key", B64Encode(Short)>>,
                        <<"user_private_key", Malformed>>,
                        <<"recipient_public_key", Malformed>>,
                        <<"recipient_public_key", B64Encode(Short)>>}) :
           LET r == share_file_key(a.wrapped_dek, a.user_public_key, a.user_private_key,
                                   a.recipient_public_key, rnd)
           IN
           /\ r.rnd <= cap
           /\ rnd' = r.rnd
           /\ out' = IF r.res.ok THEN out \cup {r.res.v} ELSE out
           /\ UNCHANGED <<fs, log, nkeys, task, lock>>
           /\ last' = Invocation("share_file_key", a, r.res, r.trace, fs)
           /\ hist' = IF r.res.ok THEN Append(hist, last') ELSE hist

WrapDekWithFolderKey(cap) ==
    /\ ~Idle
    /\ \E a \in WithFaults([dek_b64 : DekStrsOfCaller, folder_key_b64 : FolderKeyStrs],
                           {<<"dek_b64", Malformed>>, <<"dek_b64", B64Encode(Short)>>,
                            <<"folder_key_b64", Malformed>>,
                            <<"folder_key_b64", B64Encode(Short)>>}) :
           LET r == wrap_dek_with_folder_key(a, rnd) IN
           /\ r.rnd <= cap
           /\ rnd' = r.rnd
           /\ out' = IF r.res.ok
                     THEN out \cup {r.res.v.wrapped_dek, r.res.v.wrapping_nonce}
                     ELSE out
           /\ UNCHANGED <<fs, log, nkeys, task, lock>>
           /\ last' = Invocation("wrap_dek_with_folder_key", a, r.res, r.trace, fs)
           /\ hist' = IF r.res.ok THEN Append(hist, last') ELSE hist

UnwrapDekWithFolderKey ==
    /\ ~Idle
    /\ \E a \in WithFaults([wrapped_dek : WrappedStrs,
                            wrapping_nonce : NonceStrs \cup {B64Encode(OtherNonce)},
                            folder_key_b64 : FolderKeyStrs \cup {B64Encode(OtherKey)}],
                           {<<"wrapped_dek", Malformed>>,
                            <<"wrapping_nonce", Malformed>>,
                            <<"wrapping_nonce", B64Encode(Short)>>,
                            <<"folder_key_b64", Malformed>>,
                            <<"folder_key_b64", B64Encode(Short)>>}) :
           LET r == unwrap_dek_with_folder_key(a) IN
           /\ UNCHANGED <<fs, log, rnd, nkeys, out, hist, task, lock>>
           /\ last' = Invocation("unwrap_dek_with_folder_key", a, r.res, r.trace, fs)

\* Sharing: seal a DEK for a user, re-wrap it for another, unwrap it.
NextKeys ==
    \/ GenerateKeypair
    \/ SealData(MaxWraps)
    \/ ShareFileKey(MaxWraps)
    \/ UnwrapSharedDek

SpecKeys == Init /\ [][NextKeys]_vars

\* The two wrapping mechanisms side by side: a DEK wrapped under a folder key
\* or sealed for a user, and both ways of unwrapping.
NextFolder ==
    \/ GenerateKeypair
    \/ SealData(MaxFolderWraps)
    \/ SealShortData(MaxFolderWraps)
    \/ WrapDekWithFolderKey(MaxFolderWraps)
    \/ UnwrapDekWithFolderKey
    \/ UnwrapSharedDek
    \/ ShareFileKey(MaxFolderWraps)

SpecFolder == Init /\ [][NextFolder]_vars

\* Encryption of files and wrapping of DEKs under a folder key: every call
\* that runs the AEAD cipher to encrypt.
NextNonce ==
    \/ GenerateKeypair
    \/ EncryptFileOnly
    \/ WrapDekWithFolderKey(MaxRand)

SpecNonce == Init /\ [][NextNonce]_vars

(* ----------------------- concurrent invocations ----------------------- *)

\* An empty file: what File::create leaves until something is written.
Empty == Raw(0, 0)

\* The state a first encrypt_file_only call leaves: a keypair, the plaintext
\* file and its envelope.
FirstEnvelope ==
    encrypt_file([p \in Files |-> IF p = "plain.txt" THEN PlainText ELSE NoFile], 0,
                 "plain.txt", "file.enc", B64Encode(Pk(1)))

InitTasks ==
    /\ fs = FirstEnvelope.fs
    /\ log = <<>>
    /\ rnd = FirstEnvelope.rnd
    /\ nkeys = 1
    /\ out = {FirstEnvelope.res.v.wrapped_dek, FirstEnvelope.res.v.nonce}
    /\ hist = <<>>
    /\ last = [op |-> "init", args |-> [n |-> 0], res |-> Ok(<<>>), trace |-> <<>>,
               fsPre |-> fs, fsPost |-> fs, logPre |-> log, changed |-> TRUE]
    /\ task = [t \in TaskIds |-> NotStarted]
    /\ lock = 0

CoreOps == {"encrypt_file", "decrypt_file", "decrypt_file_with_dek"}

\* Invocations are numbered in the order they are made: t is the next one.
IsNext(t) ==
    /\ task[t].pc = "idle"
    /\ \A u \in TaskIds : u < t => task[u].pc # "idle"

\* A Result as an invocation holds it: the value marked with the operation it
\* is the return type of, an error marked as one.
Held(op, res) == [ok |-> res.ok, v |-> <<IF res.ok THEN op ELSE "Err", res.v>>]

\* Task tk when the crypto.rs function it runs returns res: an invocation of
\* the function itself is done; a command goes on, or returns the error (the ?
\* after map_err).
Returned(tk, res) ==
    IF tk.op \in CoreOps THEN [tk EXCEPT !.pc = "done", !.res = Held(tk.op, res)]
    ELSE IF ~res.ok
    THEN [tk EXCEPT !.pc = "done",
                    !.res = Held(tk.op, MapErr(res, IF tk.op = "encrypt_and_upload_file"
                                                    THEN "Encryption failed: "
                                                    ELSE "Decryption failed: "))]
    ELSE [tk EXCEPT !.pc = IF tk.op = "encrypt_and_upload_file" THEN "upload" ELSE "cleanup",
                    !.res = Held(tk.op, res)]

StartEncryptFile(t) ==
    /\ IsNext(t)
    /\ \E input_path \in {"plain.txt", "out.txt"} :
       task' = [task EXCEPT ![t] =
                   [NotStarted EXCEPT !.op = "encrypt_file", !.pc = "enc_draw",
                                      !.input_path = input_path,
                                      !.output_path = "file.enc",
                                      !.server_public_key = B64Encode(Pk(1)),
                                      !.fs0 = fs]]
    /\ UNCHANGED <<fs, log, rnd, nkeys, out, hist, last, lock>>

StartDecryptFile(t) ==
    /\ IsNext(t)
    /\ task' = [task EXCEPT ![t] =
                   [NotStarted EXCEPT !.op = "decrypt_file", !.pc = "dec_unwrap",
                                      !.encrypted_file_path = "file.enc",
                                      !.wrapped_dek = FirstEnvelope.res.v.wrapped_dek,
                                      !.nonce = FirstEnvelope.res.v.nonce,
                                      !.server_public_key = B64Encode(Pk(1)),
                                      !.server_private_key = B64Encode(Sk(1)),
                                      !.output_path = "out.txt",
                                      !.fs0 = fs]]
    /\ UNCHANGED <<fs, log, rnd, nkeys, out, hist, last, lock>>

StartDecryptFileWithDek(t) ==
    /\ IsNext(t)
    /\ task' = [task EXCEPT ![t] =
                   [NotStarted EXCEPT !.op = "decrypt_file_with_dek", !.pc = "dwd_check",
                                      !.encrypted_file_path = "file.enc",
                                      !.dek_base64 = B64Encode(FirstEnvelope.fs["file.enc"][2]),
                                      !.nonce = FirstEnvelope.res.v.nonce,
                                      !.output_path = "out.txt",
                                      !.fs0 = fs]]
    /\ UNCHANGED <<fs, log, rnd, nkeys, out, hist, last, lock>>

\* encrypt_file: generate_dek, generate_nonce.
EncDraw(t) ==
    /\ task[t].pc = "enc_draw"
    /\ rnd' = rnd + 2
    /\ task' = [task EXCEPT ![t].dek = generate_dek(rnd + 1),
                            ![t].nonce_bytes = generate_nonce(rnd + 2),
                            ![t].pc = "enc_read"]
    /\ UNCHANGED <<fs, log, nkeys, out, hist, last, lock>>

\* encrypt_file: File::open(input_path), read_to_end.
EncRead(t) ==
    /\ task[t].pc = "enc_read"
    /\ task' = [task EXCEPT ![t] =
                   IF Exists(fs, @.input_path)
                   THEN [@ EXCEPT !.buf = fs[task[t].input_path], !.pc = "enc_create"]
                   ELSE Returned(@, Err(<<"Failed to open input file">>))]
    /\ UNCHANGED <<fs, log, rnd, nkeys, out, hist, last, lock>>

\* encrypt_file: cipher.encrypt, File::create(output_path).
EncCreate(t) ==
    /\ task[t].pc = "enc_create"
    /\ IF Creatable(task[t].output_path)
       THEN /\ fs' = [fs EXCEPT ![task[t].output_path] = Empty]
            /\ task' = [task EXCEPT ![t].buf = Aead(task[t].dek, task[t].nonce_bytes, @),
                                    ![t].pc = "enc_write"]
       ELSE /\ fs' = fs
            /\ task' = [task EXCEPT ![t] =
                           Returned(@, Err(<<"Failed to create output file">>))]
    /\ UNCHANGED <<log, rnd, nkeys, out, hist, last, lock>>

\* encrypt_file: output_file.write_all(&ciphertext).
EncWrite(t) ==
    /\ task[t].pc = "enc_write"
    /\ fs' = [fs EXCEPT ![task[t].output_path] = task[t].buf]
    /\ task' = [task EXCEPT ![t].pc = "enc_wrap"]
    /\ UNCHANGED <<log, rnd, nkeys, out, hist, last, lock>>

\* encrypt_file: wrap_dek, and the EncryptionResult.
EncWrap(t) ==
    /\ task[t].pc = "enc_wrap"
    /\ LET wrapped_dek == wrap_dek(task[t].dek, task[t].server_public_key, rnd) IN
       /\ rnd' = wrapped_dek.rnd
       /\ task' = [task EXCEPT ![t] =
                      Returned(@, IF ~wrapped_dek.res.ok THEN wrapped_dek.res
                                  ELSE Ok([encrypted_file_path |-> @.output_path,
                                           wrapped_dek         |-> wrapped_dek.res.v,
                                           nonce               |-> B64Encode(@.nonce_bytes),
                                           file_size           |-> BLen(@.buf),
                                           original_filename   |-> FileName(@.input_path)]))]
    /\ UNCHANGED <<fs, log, nkeys, out, hist, last, lock>>

\* decrypt_file: unwrap_dek, then the nonce is decoded and its length checked.
DecUnwrap(t) ==
    /\ task[t].pc = "dec_unwrap"
    /\ LET dek == unwrap_dek(task[t].wrapped_dek, task[t].server_public_key,
                             task[t].server_private_key)
           nonce_bytes == B64Decode(task[t].nonce)
       IN
       task' = [task EXCEPT ![t] =
                   IF ~dek.res.ok THEN Returned(@, dek.res)
                   ELSE IF ~nonce_bytes.ok
                   THEN Returned(@, Err(<<"Failed to decode nonce">>))
                   ELSE IF BLen(nonce_bytes.v) # NONCE_SIZE
                   THEN Returned(@, Err(<<"Invalid nonce size">>))
                   ELSE [@ EXCEPT !.dek = dek.res.v, !.nonce_bytes = nonce_bytes.v,
                                  !.pc = "dec_read"]]
    /\ UNCHANGED <<fs, log, rnd, nkeys, out, hist, last, lock>>

\* decrypt_file_with_dek: the DEK and the nonce are decoded and their lengths checked.
DwdCheck(t) ==
    /\ task[t].pc = "dwd_check"
    /\ LET dek_bytes == B64Decode(task[t].dek_base64)
           nonce_bytes == B64Decode(task[t].nonce)
       IN
       task' = [task EXCEPT ![t] =
                   IF ~dek_bytes.ok THEN Returned(@, Err(<<"Failed to decode DEK">>))
                   ELSE IF BLen(dek_bytes.v) # KEY_SIZE
                   THEN Returned(@, Err(<<"Invalid DEK size: expected 32, got ",
                                          ToString(BLen(dek_bytes.v))>>))
                   ELSE IF ~nonce_bytes.ok
                   THEN Returned(@, Err(<<"Failed to decode nonce">>))
                   ELSE IF BLen(nonce_bytes.v) # NONCE_SIZE
                   THEN Returned(@, Err(<<"Invalid nonce size">>))
                   ELSE [@ EXCEPT !.dek = dek_bytes.v, !.nonce_bytes = nonce_bytes.v,
                                  !.pc = "dec_read"]]
    /\ UNCHANGED <<fs, log, rnd, nkeys, out, hist, last, lock>>

\* decrypt_file, decrypt_file_with_dek: File::open(encrypted_file_path), read_to_end.
DecRead(t) ==
    /\ task[t].pc = "dec_read"
    /\ task' = [task EXCEPT ![t] =
                   IF Exists(fs, @.encrypted_file_path)
                   THEN [@ EXCEPT !.buf = fs[task[t].encrypted_file_path], !.pc = "dec_create"]
                   ELSE Returned(@, Err(<<"Failed to open encrypted file">>))]
    /\ UNCHANGED <<fs, log, rnd, nkeys, out, hist, last, lock>>

\* decrypt_file, decrypt_file_with_dek: cipher.decrypt, File::create(output_path).
DecCreate(t) ==
    /\ task[t].pc = "dec_create"
    /\ LET plaintext == AeadDecrypt(task[t].dek, task[t].nonce_bytes, task[t].buf) IN
       IF ~plaintext.ok
       THEN /\ fs' = fs
            /\ task' = [task EXCEPT ![t] =
                           Returned(@, Err(<<"Decryption failed: ">> \o plaintext.v))]
       ELSE IF ~Creatable(task[t].output_path)
       THEN /\ fs' = fs
            /\ task' = [task EXCEPT ![t] =
                           Returned(@, Err(<<"Failed to create output file">>))]
       ELSE /\ fs' = [fs EXCEPT ![task[t].output_path] = Empty]
            /\ task' = [task EXCEPT ![t].buf = plaintext.v, ![t].pc = "dec_write"]
    /\ UNCHANGED <<log, rnd, nkeys, out, hist, last, lock>>

\* decrypt_file, decrypt_file_with_dek: output_file.write_all(&plaintext).
DecWrite(t) ==
    /\ task[t].pc = "dec_write"
    /\ fs' = [fs EXCEPT ![task[t].output_path] = task[t].buf]
    /\ task' = [task EXCEPT ![t] = Returned(@, Ok(@.output_path))]
    /\ UNCHANGED <<log, rnd, nkeys, out, hist, last, lock>>

\* A step of the crypto.rs function task t runs.
CoreStep(t) ==
    \/ EncDraw(t)
    \/ EncRead(t)
    \/ EncCreate(t)
    \/ EncWrite(t)
    \/ EncWrap(t)
    \/ DecUnwrap(t)
    \/ DwdCheck(t)
    \/ DecRead(t)
    \/ DecCreate(t)
    \/ DecWrite(t)

\* Invocations of the file functions running on independent threads.
NextConc ==
    \/ \E t \in TaskIds : StartEncryptFile(t)
    \/ \E t \in TaskIds : StartDecryptFile(t)
    \/ \E t \in TaskIds : StartDecryptFileWithDek(t)
    \/ \E t \in TaskIds : CoreStep(t)

SpecConc == InitTasks /\ [][NextConc]_vars

(* ------------------- the commands that use the temp directory ------------------- *)

Commands == {"encrypt_and_upload_file", "download_and_decrypt_file",
             "download_and_decrypt_shared_file"}

\* What the storage server sends for the object: the ciphertext uploaded
\* earlier, or that ciphertext altered.
Stored == {FirstEnvelope.fs["file.enc"], Bad(FirstEnvelope.fs["file.enc"])}

StartEncryptAndUpload(t) ==
    /\ IsNext(t)
    /\ \E server_public_key \in {B64Encode(Pk(1)), Malformed} :
       task' = [task EXCEPT ![t] =
                   [NotStarted EXCEPT !.op = "encrypt_and_upload_file", !.pc = "lock",
                                      !.input_path = "plain.txt",
                                      !.server_public_key = server_public_key]]
    /\ UNCHANGED <<fs, log, rnd, nkeys, out, hist, last, lock>>

StartDownloadAndDecrypt(t) ==
    /\ IsNext(t)
    /\ task' = [task EXCEPT ![t] =
                   [NotStarted EXCEPT !.op = "download_and_decrypt_file", !.pc = "lock",
                                      !.wrapped_dek = FirstEnvelope.res.v.wrapped_dek,
                                      !.nonce = FirstEnvelope.res.v.nonce,
                                      !.server_public_key = B64Encode(Pk(1)),
                                      !.server_private_key = B64Encode(Sk(1)),
                                      !.output_path = "out.txt"]]
    /\ UNCHANGED <<fs, log, rnd, nkeys, out, hist, last, lock>>

StartDownloadShared(t) ==
    /\ IsNext(t)
    /\ task' = [task EXCEPT ![t] =
                   [NotStarted EXCEPT !.op = "download_and_decrypt_shared_file", !.pc = "lock",
                                      !.dek_base64 = B64Encode(FirstEnvelope.fs["file.enc"][2]),
                                      !.nonce = FirstEnvelope.res.v.nonce,
                                      !.output_path = "out.txt"]]
    /\ UNCHANGED <<fs, log, rnd, nkeys, out, hist, last, lock>>

\* state.temp_dir.lock(): the calling thread waits until the mutex is free.
Lock(t) ==
    /\ task[t].pc = "lock"
    /\ lock = 0
    /\ lock' = t
    /\ task' = [task EXCEPT ![t].pc = "clone"]
    /\ UNCHANGED <<fs, log, rnd, nkeys, out, hist, last>>

\* Clone with a slip: the guard is bound to a variable and lives on.
Clone_keeps_guard(t) ==
    /\ task[t].pc = "clone"
    /\ lock = t
    /\ lock' = lock
    /\ task' = [task EXCEPT ![t] =
                   IF @.op = "encrypt_and_upload_file"
                   THEN [@ EXCEPT !.output_path = TempPath(t), !.pc = "encrypt"]
                   ELSE [@ EXCEPT !.encrypted_file_path = TempPath(t), !.pc = "download"]]
    /\ UNCHANGED <<fs, log, rnd, nkeys, out, hist, last>>

\* .unwrap().clone(): the path is copied and the guard, a temporary, dropped at
\* the end of the statement; then encrypted_path = temp_dir.join("<uuid>.enc").
Clone(t) ==
    /\ task[t].pc = "clone"
    /\ lock = t
    /\ lock' = 0
    /\ task' = [task EXCEPT ![t] =
                   IF @.op = "encrypt_and_upload_file"
                   THEN [@ EXCEPT !.output_path = TempPath(t), !.pc = "encrypt"]
                   ELSE [@ EXCEPT !.encrypted_file_path = TempPath(t), !.pc = "download"]]
    /\ UNCHANGED <<fs, log, rnd, nkeys, out, hist, last>>

\* encrypt_file(&params.file_path, encrypted_path, &params.server_public_key)
\* .map_err(...)?, between two awaits.
Encrypt(t) ==
    /\ task[t].pc = "encrypt"
    /\ LET encryption_result == encrypt_file(fs, rnd, task[t].input_path, task[t].output_path,
                                             task[t].server_public_key)
       IN
       /\ fs' = encryption_result.fs
       /\ rnd' = encryption_result.rnd
       /\ task' = [task EXCEPT ![t] = Returned(@, encryption_result.res)]
    /\ UNCHANGED <<log, nkeys, out, hist, last, lock>>

\* decrypt_file(decryption_params, ...) or decrypt_file_with_dek(...), then
\* .map_err(...)?.
Decrypt(t) ==
    /\ task[t].pc = "decrypt"
    /\ LET decrypted_path ==
               IF task[t].op = "download_and_decrypt_file"
               THEN decrypt_file(fs, task[t], task[t].output_path, task[t].server_public_key)
               ELSE decrypt_file_with_dek(fs, task[t].encrypted_file_path, task[t].dek_base64,
                                          task[t].nonce, task[t].output_path)
       IN
       /\ fs' = decrypted_path.fs
       /\ task' = [task EXCEPT ![t] = Returned(@, decrypted_path.res)]
    /\ UNCHANGED <<log, rnd, nkeys, out, hist, last, lock>>

\* upload_to_s3(...).await.map_err(...)?: the file is read, then the PUT
\* succeeds or fails.
Upload(t) ==
    /\ task[t].pc = "upload"
    /\ \E sent \in BOOLEAN :
       task' = [task EXCEPT ![t] =
                   IF ~Exists(fs, @.output_path)
                   THEN [@ EXCEPT !.pc = "done",
                                  !.res = Held(task[t].op, Err(<<"S3 upload failed: ",
                                                "Failed to open encrypted file for upload">>))]
                   ELSE IF ~sent
                   THEN [@ EXCEPT !.pc = "done",
                                  !.res = Held(task[t].op, Err(<<"S3 upload failed: ",
                                                "Failed to upload file to S3">>))]
                   ELSE [@ EXCEPT !.pc = "cleanup"]]
    /\ UNCHANGED <<fs, log, rnd, nkeys, out, hist, last, lock>>

\* client.get(...).send().await, the status check, response.bytes().await and
\* std::fs::write(&encrypted_path, encrypted_data). The three failures of the
\* request ("Download failed: ", "Download failed with status: ", "Failed to
\* read downloaded data: ") return before anything is written and are one case.
Download(t) ==
    /\ task[t].pc = "download"
    /\ \/ /\ \E failure \in {"Download failed", "Failed to save encrypted file: "} :
               task' = [task EXCEPT ![t].pc = "done", ![t].res = Held(task[t].op, Err(<<failure>>))]
          /\ fs' = fs
       \/ \E encrypted_data \in Stored :
            /\ fs' = [fs EXCEPT ![task[t].encrypted_file_path] = encrypted_data]
            /\ task' = [task EXCEPT ![t].fetched = encrypted_data, ![t].pc = "decrypt"]
    /\ UNCHANGED <<log, rnd, nkeys, out, hist, last, lock>>

\* std::fs::remove_file on the temp file, a failure only logged; then Ok(...).
Cleanup(t) ==
    /\ task[t].pc = "cleanup"
    /\ LET encrypted_path == IF task[t].op = "encrypt_and_upload_file"
                             THEN task[t].output_path
                             ELSE task[t].encrypted_file_path
       IN
       \E removable \in BOOLEAN :
           IF removable /\ Exists(fs, encrypted_path)
           THEN /\ fs' = [fs EXCEPT ![encrypted_path] = NoFile]
                /\ log' = log
                /\ task' = [task EXCEPT ![t].pc = "done"]
           ELSE /\ fs' = fs
                /\ log' = Append(log, "Failed to remove temp encrypted file")
                /\ task' = [task EXCEPT ![t].pc = "done", ![t].removed = FALSE]
    /\ UNCHANGED <<rnd, nkeys, out, hist, last, lock>>

\* The registered commands that go through the temp directory, each an async
\* task of the runtime.
NextCmd ==
    \/ \E t \in TaskIds : StartEncryptAndUpload(t)
    \/ \E t \in TaskIds : StartDownloadAndDecrypt(t)
    \/ \E t \in TaskIds : StartDownloadShared(t)
    \/ \E t \in TaskIds : Lock(t)
    \/ \E t \in TaskIds : Clone(t)
    \/ \E t \in TaskIds : Encrypt(t)
    \/ \E t \in TaskIds : Upload(t)
    \/ \E t \in TaskIds : Download(t)
    \/ \E t \in TaskIds : Decrypt(t)
    \/ \E t \in TaskIds : Cleanup(t)

SpecCmd == InitTasks /\ [][NextCmd]_vars

\* A step of the invocation t after it was made.
Step(t) ==
    \/ Lock(t)
    \/ Clone(t)
    \/ Encrypt(t)
    \/ Upload(t)
    \/ Download(t)
    \/ Decrypt(t)
    \/ Cleanup(t)

\* The two steps of state.temp_dir.lock().unwrap().clone().
MutexStep(t) == Lock(t) \/ Clone(t)

\* A thread waiting for a free mutex is woken and takes it, and the thread
\* holding it runs on to the end of the statement, where the guard is dropped.
\* Nothing is assumed of the steps after that: a request may never complete.
SpecCmdFair == SpecCmd /\ WF_vars(\E t \in TaskIds : MutexStep(t))

(* ------------------------- reading an invocation ---------------------- *)

\* The successful encrypt_file invocations so far.
Envelopes == {hist[i] : i \in {j \in 1..Len(hist) : hist[j].op = "encrypt_file"}}

\* The ciphertext file an encrypt_file invocation wrote.
CiphertextOf(h) == h.fsPost[h.args.output_path]

\* The DEK that invocation drew: the key its ciphertext is under.
DekOf(h) == CiphertextOf(h)[2]

\* The texts of the errors that report a malformed encoding or a wrong byte
\* length of a key, a nonce or a DEK given by the caller.
ValidationTexts ==
    {"Failed to decode server public key", "Failed to decode server private key",
     "Invalid server public key", "Invalid server private key",
     "Failed to decode user public key", "Failed to decode user private key",
     "Invalid user public key", "Invalid user private key",
     "Failed to decode recipient public key", "Invalid recipient public key",
     "Failed to decode wrapped DEK", "Failed to decode nonce", "Invalid nonce size",
     "Failed to decode DEK", "Invalid DEK size: expected 32, got ",
     "Failed to decode DEK: ", "Failed to decode folder key: ",
     "Invalid folder key size", "Failed to decode ciphertext"}

IsValidationError(res) ==
    ~res.ok /\ \E i \in 1..Len(res.v) : res.v[i] \in ValidationTexts

(* ------------------------------- claims ------------------------------- *)

\* C1: decrypt_file, given the ciphertext file, wrapped DEK and nonce that an
\* encrypt_file call returned, the keypair whose public half that call was
\* given, and an output path that can be created, succeeds and leaves the
\* plaintext that was encrypted at the output path.
C1_RoundTrip ==
    \A e \in Envelopes :
        ( /\ last.op = "decrypt_file"
          /\ last.args.encrypted_file_path = e.res.v.encrypted_file_path
          /\ last.fsPre[e.res.v.encrypted_file_path] = CiphertextOf(e)
          /\ last.args.wrapped_dek = e.res.v.wrapped_dek
          /\ last.args.nonce = e.res.v.nonce
          /\ last.args.server_public_key = e.args.server_public_key
          /\ IsKeypair(last.args.server_public_key, last.args.server_private_key)
          /\ Creatable(last.args.output_path) )
        => /\ last.res = Ok(last.args.output_path)
           /\ fs[last.args.output_path] = e.fsPre[e.args.input_path]

C1_Witness ==
    /\ last.op = "decrypt_file"
    /\ last.res.ok
    /\ fs["out.txt"] = PlainText
    /\ \E e \in Envelopes : /\ last.args.wrapped_dek = e.res.v.wrapped_dek
                            /\ last.fsPre["file.enc"] = CiphertextOf(e)

\* C5 (as claimed): when encrypt_file returns an error, no file has been
\* created or changed.
C5_EncryptFailsAtomically ==
    (last.op = "encrypt_file" /\ ~last.res.ok) => fs = last.fsPre

\* C6 (as claimed): an error about a malformed or wrong-length key, nonce or
\* DEK is returned before the invocation has made any cryptographic call.
C6_ValidationBeforeCrypto ==
    IsValidationError(last.res) => last.trace = <<>>

\* The key, nonce and ciphertext of a decryption are those of one encryption:
\* the file read is the ciphertext an encrypt_file call wrote, the nonce is the
\* one it returned, and the DEK supplied, or sealed in the wrapped key and
\* opened with a keypair, is the one it drew.
Authentic ==
    \E e \in Envelopes :
        /\ last.fsPre[last.args.encrypted_file_path] = CiphertextOf(e)
        /\ IF last.op = "decrypt_file"
           THEN /\ last.args.nonce = e.res.v.nonce
                /\ IsKeypair(last.args.server_public_key, last.args.server_private_key)
                /\ \E x \in 1..MaxRand :
                       last.args.wrapped_dek =
                           B64Encode(Seal(B64Decode(last.args.server_public_key).v,
                                          DekOf(e), Rnd(x, KEY_SIZE)))
           ELSE /\ last.args.nonce_base64 = e.res.v.nonce
                /\ last.args.dek_base64 = B64Encode(DekOf(e))

\* C7: decrypt_file and decrypt_file_with_dek return an error unless the DEK
\* and the nonce are those the ciphertext was made with and the ciphertext is
\* as encrypt_file wrote it.
C7_AuthenticatedDecryption ==
    ( /\ last.op \in {"decrypt_file", "decrypt_file_with_dek"}
      /\ Exists(last.fsPre, last.args.encrypted_file_path)
      /\ ~Authentic )
    => ~last.res.ok

\* An altered ciphertext, with the right DEK and nonce, has reached the cipher.
C7_Witness ==
    /\ last.op = "decrypt_file_with_dek"
    /\ last.fsPre["file.enc"][1] = "flip"
    /\ \E e \in Envelopes : /\ last.fsPre["file.enc"] = Bad(CiphertextOf(e))
                            /\ last.args.dek_base64 = B64Encode(DekOf(e))
                            /\ last.args.nonce_base64 = e.res.v.nonce
    /\ last.trace = <<"aead_decrypt">>
    /\ ~last.res.ok

(* ---------------------- claims about wrapped keys --------------------- *)

\* The successful invocations of op so far.
Past(op) == {hist[i] : i \in {j \in 1..Len(hist) : hist[j].op = op}}

\* w is the base64 of a sealed box.
IsSealed(w) == w[1] = "b64" /\ w[2][1] = "seal"

\* The bytes sealed in w.
SealedIn(w) == w[2][3]

\* The holder's keys open w: w is a sealed box made for the public key pk, and
\* sk is the secret half of pk.
Opens(w, pk, sk) == IsSealed(w) /\ pk = B64Encode(w[2][2]) /\ IsKeypair(pk, sk)

\* C2: share_file_key, given a 32-byte DEK sealed for the holder's public key,
\* the holder's keypair and a recipient's public key, succeeds; and the wrapped
\* key a share_file_key call returned, opened with the keypair of the recipient
\* that call was given, yields exactly the DEK sealed in the wrapped key that
\* call was given.
C2_ShareAndRecover ==
    /\ ( /\ last.op = "share_file_key"
         /\ Opens(last.args.wrapped_dek, last.args.user_public_key,
                  last.args.user_private_key)
         /\ BLen(SealedIn(last.args.wrapped_dek)) = KEY_SIZE
         /\ last.args.recipient_public_key \in PkStrs )
       => last.res.ok
    /\ \A s \in Past("share_file_key") :
           ( /\ last.op = "unwrap_shared_dek"
             /\ last.args.wrapped_dek = s.res.v
             /\ last.args.user_public_key = s.args.recipient_public_key
             /\ IsKeypair(last.args.user_public_key, last.args.user_private_key) )
           => last.res = Ok(B64Encode(SealedIn(s.args.wrapped_dek)))

\* A recipient other than the holder has recovered the DEK from a re-wrapped key.
C2_Witness ==
    /\ last.op = "unwrap_shared_dek"
    /\ last.res.ok
    /\ \E s \in Past("share_file_key") :
           /\ last.args.wrapped_dek = s.res.v
           /\ s.args.recipient_public_key # s.args.user_public_key
           /\ last.args.user_public_key = s.args.recipient_public_key
           /\ last.res.v = B64Encode(SealedIn(s.args.wrapped_dek))

\* C3: unwrap_dek_with_folder_key, given the wrapped DEK and the wrapping nonce
\* that a wrap_dek_with_folder_key call returned for a 32-byte DEK, and the
\* folder key that call was given, returns that DEK.
C3_FolderKeyRoundTrip ==
    \A w \in Past("wrap_dek_with_folder_key") :
        ( /\ last.op = "unwrap_dek_with_folder_key"
          /\ BLen(B64Decode(w.args.dek_b64).v) = KEY_SIZE
          /\ last.args.wrapped_dek = w.res.v.wrapped_dek
          /\ last.args.wrapping_nonce = w.res.v.wrapping_nonce
          /\ last.args.folder_key_b64 = w.args.folder_key_b64 )
        => last.res = Ok(B64Encode(B64Decode(w.args.dek_b64).v))

C3_Witness ==
    /\ last.op = "unwrap_dek_with_folder_key"
    /\ last.res.ok
    /\ last.trace = <<"aead_decrypt">>
    /\ \E w \in Past("wrap_dek_with_folder_key") :
           /\ last.args.wrapped_dek = w.res.v.wrapped_dek
           /\ last.args.wrapping_nonce = w.res.v.wrapping_nonce
           /\ last.args.folder_key_b64 = w.args.folder_key_b64
           /\ last.res.v = w.args.dek_b64
           /\ BLen(B64Decode(w.args.dek_b64).v) = KEY_SIZE

\* C4 (as claimed): wrap_dek_with_folder_key, given a DEK that decodes to a
\* length other than 32 bytes, returns an error and makes no call of the cipher.
C4_ShortDekRejected ==
    ( /\ last.op = "wrap_dek_with_folder_key"
      /\ B64Decode(last.args.dek_b64).ok
      /\ BLen(B64Decode(last.args.dek_b64).v) # KEY_SIZE )
    => ~last.res.ok /\ last.trace = <<>>

\* The wrapped keys the folder-key path has returned.
FolderWrapped == {w.res.v.wrapped_dek : w \in Past("wrap_dek_with_folder_key")}

\* The wrapped keys the sealed-box path has returned.
SealedWrapped ==
    {s.res.v : s \in Past("seal_data")} \cup {s.res.v : s \in Past("share_file_key")}

\* C8: a wrapped key returned by the folder-key path is never unwrapped by the
\* sealed-box path (unwrap_shared_dek, share_file_key), and a wrapped key
\* returned by the sealed-box path is never unwrapped by
\* unwrap_dek_with_folder_key, whatever keys and nonce are given.
C8_NotInterchangeable ==
    /\ ( /\ last.op \in {"unwrap_shared_dek", "share_file_key"}
         /\ last.args.wrapped_dek \in FolderWrapped )
       => ~last.res.ok
    /\ ( /\ last.op = "unwrap_dek_with_folder_key"
         /\ last.args.wrapped_dek \in SealedWrapped )
       => ~last.res.ok

\* A sealed box has reached the cipher of the folder-key path under a key and a
\* nonce of the right lengths.
C8_Witness ==
    /\ last.op = "unwrap_dek_with_folder_key"
    /\ last.args.wrapped_dek \in SealedWrapped
    /\ last.trace = <<"aead_decrypt">>
    /\ ~last.res.ok

\* C9: when the holder's keys given to share_file_key do not open the wrapped
\* DEK given, it returns an error, the DEK is not sealed for the recipient,
\* and no wrapped key is returned.
C9_ShareNeedsHolder ==
    ( /\ last.op = "share_file_key"
      /\ ~Opens(last.args.wrapped_dek, last.args.user_public_key,
                last.args.user_private_key) )
    => /\ ~last.res.ok
       /\ \A i \in 1..Len(last.trace) : last.trace[i] # "seal"
       /\ \A s \in Past("share_file_key") : s.args # last.args

\* A sealed box made for one user was given with the keypair of another, and a
\* recipient's key that would have been accepted.
C9_Witness ==
    /\ last.op = "share_file_key"
    /\ IsSealed(last.args.wrapped_dek)
    /\ IsKeypair(last.args.user_public_key, last.args.user_private_key)
    /\ last.args.user_public_key # B64Encode(last.args.wrapped_dek[2][2])
    /\ last.args.recipient_public_key \in PkStrs
    /\ last.trace = <<"seal_open">>
    /\ ~last.res.ok

\* The text of bytes b, as a format string renders them.
Text(b) == ToString(b)

\* The DEK that the unwrap step of the last share_file_key call recovered.
Recovered ==
    IF Opens(last.args.wrapped_dek, last.args.user_public_key,
             last.args.user_private_key)
    THEN {SealedIn(last.args.wrapped_dek)}
    ELSE {}

\* C10: a share_file_key call, successful or failed, writes no file and no log
\* line, and the DEK its unwrap step recovered is neither the value it returns
\* nor a part of the error it returns.
C10_NoIntermediateState ==
    last.op = "share_file_key" =>
        /\ fs = last.fsPre
        /\ log = last.logPre
        /\ \A d \in Recovered :
               IF last.res.ok
               THEN last.res.v \notin {d, B64Encode(d)}
               ELSE \A i \in 1..Len(last.res.v) :
                        last.res.v[i] \notin {Text(d), Text(B64Encode(d))}

\* A share_file_key call recovered the DEK and then failed at the wrap step.
C10_Witness ==
    /\ last.op = "share_file_key"
    /\ Recovered # {}
    /\ ~last.res.ok
    /\ last.trace = <<"seal_open">>

(* ----------------------- claims about failures ------------------------ *)

\* The keys given to the last unwrap are base64 of 32 bytes each and the
\* wrapped key given is base64: what is left to fail is the opening of the
\* sealed box (keys that do not match it, a corrupted box) and the length of
\* what was opened.
OpeningAttempted ==
    /\ B64Decode(last.args.user_public_key).ok
    /\ B64Decode(last.args.user_private_key).ok
    /\ FromSlice(B64Decode(last.args.user_public_key).v)
    /\ FromSlice(B64Decode(last.args.user_private_key).v)
    /\ B64Decode(last.args.wrapped_dek).ok

\* C12 (as claimed): an unwrap that fails at the sealed box returns one and the
\* same error, whether the keys do not match the box, the box is corrupted, or
\* what was opened is not 32 bytes long.
C12_OneUnwrapError ==
    (last.op = "unwrap_shared_dek" /\ OpeningAttempted /\ ~last.res.ok)
    => last.res = Err(<<"Failed to unwrap DEK: ", "Failed to unseal DEK">>)

(* ------------------------- claims about nonces ------------------------ *)

\* The positions in hist of the invocations that encrypted: encrypt_file and
\* wrap_dek_with_folder_key.
Encryptions ==
    {i \in 1..Len(hist) : hist[i].op \in {"encrypt_file", "wrap_dek_with_folder_key"}}

\* The AEAD ciphertext the invocation h produced.
Produced(h) ==
    IF h.op = "encrypt_file" THEN CiphertextOf(h) ELSE B64Decode(h.res.v.wrapped_dek).v

\* The key and the nonce a ciphertext was made with.
KeyAndNonce(c) == <<c[2], c[3]>>

\* C13: no two AEAD encryptions use the same key with the same nonce: any two
\* encrypt_file and wrap_dek_with_folder_key invocations differ in key or
\* nonce, their nonces differ, two encrypt_file invocations have different
\* DEKs, and the ciphertext file a failed encrypt_file left behind is under a
\* key and nonce of no earlier encryption.
C13_NoNonceReuse ==
    /\ \A i \in Encryptions : \A j \in Encryptions :
           i < j =>
               /\ KeyAndNonce(Produced(hist[i])) # KeyAndNonce(Produced(hist[j]))
               /\ Produced(hist[i])[3] # Produced(hist[j])[3]
               /\ (hist[i].op = "encrypt_file" /\ hist[j].op = "encrypt_file")
                      => DekOf(hist[i]) # DekOf(hist[j])
    /\ ( /\ last.op = "encrypt_file"
         /\ ~last.res.ok
         /\ last.fsPost # last.fsPre )
       => \A i \in Encryptions :
              KeyAndNonce(Produced(hist[i])) # KeyAndNonce(last.fsPost[last.args.output_path])

\* Two DEKs have been wrapped under one folder key, and a file encrypted.
C13_Witness ==
    /\ \E i \in Encryptions : hist[i].op = "encrypt_file"
    /\ \E i \in Encryptions : \E j \in Encryptions :
           /\ i < j
           /\ hist[i].op = "wrap_dek_with_folder_key"
           /\ hist[j].op = "wrap_dek_with_folder_key"
           /\ Produced(hist[i])[2] = Produced(hist[j])[2]

(* ------------------------ claims about decryption --------------------- *)

\* The two-call way of decrypting on files f with the arguments a of a
\* decrypt_file call: unwrap_shared_dek with the keypair, then
\* decrypt_file_with_dek with the DEK it returned and the same nonce and paths.
UnwrapThenDecrypt(f, a) ==
    LET u == unwrap_shared_dek(a.wrapped_dek, a.server_public_key, a.server_private_key)
    IN
    IF ~u.res.ok THEN FRet(u.res, u.trace, 0, f)
    ELSE decrypt_file_with_dek(f, a.encrypted_file_path, u.res.v, a.nonce, a.output_path)

\* C14: a decrypt_file call succeeds exactly when unwrap_shared_dek followed by
\* decrypt_file_with_dek succeeds on the same files and arguments, it returns
\* the same path, and it leaves the same files.
C14_SameAsUnwrapThenDecrypt ==
    last.op = "decrypt_file" =>
        LET c == UnwrapThenDecrypt(last.fsPre, last.args) IN
        /\ c.res.ok = last.res.ok
        /\ c.res.ok => c.res.v = last.res.v
        /\ c.fs = last.fsPost

\* decrypt_file has written a plaintext that the two-call way writes too.
C14_Witness ==
    /\ last.op = "decrypt_file"
    /\ last.res.ok
    /\ last.fsPost["out.txt"] # last.fsPre["out.txt"]
    /\ UnwrapThenDecrypt(last.fsPre, last.args).fs["out.txt"] = last.fsPost["out.txt"]

\* The last call is a decryption, and it failed for a cause other than the
\* output file: a malformed or wrong-length argument, a DEK that does not
\* unwrap, a ciphertext file that cannot be read, a ciphertext that does not
\* authenticate.
DecryptionRefused ==
    /\ last.op \in {"decrypt_file", "decrypt_file_with_dek"}
    /\ ~last.res.ok
    /\ \A i \in 1..Len(last.res.v) : last.res.v[i] # "Failed to create output file"

\* C15: a decryption that fails for such a cause leaves every file, the one at
\* output_path included, as it found it; and a decryption changes a file only
\* when it succeeds, after the cipher has authenticated the ciphertext, and
\* then only the file at output_path.
C15_FailedDecryptionWritesNothing ==
    /\ DecryptionRefused => (fs = last.fsPre /\ last.fsPost = last.fsPre)
    /\ ( /\ last.op \in {"decrypt_file", "decrypt_file_with_dek"}
         /\ last.fsPost # last.fsPre )
       => /\ last.res.ok
          /\ last.trace[Len(last.trace)] = "aead_decrypt"
          /\ \A p \in Files : p # last.args.output_path => last.fsPost[p] = last.fsPre[p]

\* A ciphertext that does not authenticate was refused while the output path
\* held an earlier plaintext, which is still there.
C15_Witness ==
    /\ DecryptionRefused
    /\ last.trace # <<>>
    /\ last.trace[Len(last.trace)] = "aead_decrypt"
    /\ last.args.output_path = "out.txt"
    /\ last.fsPre["out.txt"] = PlainText
    /\ fs["out.txt"] = PlainText


\* The invocation tk run on its own, in one piece, on the files as they were
\* when it started.
Alone(tk) ==
    IF tk.op = "encrypt_file"
    THEN encrypt_file(tk.fs0, 0, tk.input_path, tk.output_path, tk.server_public_key)
    ELSE IF tk.op = "decrypt_file"
    THEN decrypt_file(tk.fs0, tk, tk.output_path, tk.server_public_key)
    ELSE decrypt_file_with_dek(tk.fs0, tk.encrypted_file_path, tk.dek_base64, tk.nonce,
                               tk.output_path)

\* C11: an invocation of encrypt_file, decrypt_file or decrypt_file_with_dek
\* that runs while others run ends as it would have ended alone: it succeeds
\* or fails as alone, an encryption reports the same size, a decryption
\* returns the same value or the same error, and the plaintext it wrote is the
\* plaintext it would have written alone.
C11_SameAsAlone ==
    \A t \in TaskIds :
        (task[t].pc = "done" /\ task[t].op \in CoreOps) =>
            /\ task[t].res.ok = Alone(task[t]).res.ok
            /\ (task[t].op = "encrypt_file" /\ task[t].res.ok) =>
                  task[t].res.v[2].file_size = Alone(task[t]).res.v.file_size
            /\ task[t].op # "encrypt_file" =>
                  /\ task[t].res = Held(task[t].op, Alone(task[t]).res)
                  /\ task[t].res.ok => task[t].buf = Alone(task[t]).fs[task[t].output_path]

\* C16: when a command that goes through the temp directory has returned, with
\* Ok or with any error, and no removal of its temp file failed, the temp file
\* "<uuid>.enc" of that invocation does not exist.
C16_TempFileRemoved ==
    \A t \in TaskIds :
        (task[t].op \in Commands /\ task[t].pc = "done" /\ task[t].removed) =>
            ~Exists(fs, TempPath(t))

\* The mutex is held by an invocation only while it copies the path.
HeldOnlyForCopy == lock # 0 => task[lock].pc = "clone"

\* The path is copied only by the holder of the mutex, which then releases it.
CopiedUnderLock ==
    \A t \in TaskIds :
        (task[t].pc = "clone" /\ task'[t].pc # "clone") => (lock = t /\ lock' = 0)

\* Some invocation that has started and not returned can take a step.
NoDeadlock ==
    (\E t \in TaskIds : task[t].pc \notin {"idle", "done"}) =>
        \E t \in TaskIds : ENABLED Step(t)

\* C17: the temp_dir path is copied only under the mutex, the mutex is held
\* for the copy only and is free during encryption, file I/O and network
\* awaits, some started invocation can always go on, and every invocation
\* waiting for the mutex obtains it.
C17_MutexNeverBlocks ==
    /\ [](HeldOnlyForCopy /\ NoDeadlock)
    /\ [][CopiedUnderLock]_vars
    /\ \A t \in TaskIds : (task[t].pc = "lock") ~> (lock = t)

\* One invocation holds the mutex while another waits for it.
C17_Witness ==
    \E t1, t2 \in TaskIds :
        /\ t1 # t2
        /\ lock = t1
        /\ task[t1].pc = "clone"
        /\ task[t2].pc = "lock"

====
